---- MODULE Spec2Model ----
(***************************************************************************)
(* Named counters over a transactional store (package counter).            *)
(*                                                                         *)
(* The operator (CreateCounter, Next, DeleteCounter) is stateless: all     *)
(* state lives in the counters table.  The store is modelled as a set of   *)
(* committed rows plus, per open transaction, the row versions it has      *)
(* written and the row locks it holds; a locking read (SELECT ... FOR      *)
(* UPDATE) blocks while another transaction holds the row lock and then    *)
(* reads the latest committed version of the row.  Counter embeds          *)
(* gorm.Model, so deletion is a soft delete (deleted_at is set, the row    *)
(* stays and keeps its unique name) and every query by name sees only      *)
(* rows that are not marked deleted.                                       *)
(***************************************************************************)
EXTENDS Integers, Sequences, FiniteSets, TLC

\* ---------------------------------------------------------------- bounds
\* Number of transactions (each goroutine of the tests runs one).
NumTxns == 2
\* Operator calls made in one run, over all transactions.
MaxCalls == 3
\* Next calls made in one run by transactions that call Next repeatedly.
MaxNexts == 4

Txns == 1 .. NumTxns
\* The counter names the tests use, in the order the tests create them.
NameSeq == << "n0", "n1" >>
Names == {NameSeq[i] : i \in 1 .. Len(NameSeq)}

VARIABLES
    db,          \* committed rows of the counters table
    status,      \* status[t]: "idle", "open", "committed", "rolledback"
    pc,          \* pc[t]: position inside Next: "ready", "lockwait", "inhand"
    arg,         \* arg[t]: the name argument of the Next call in progress
    counter,     \* counter[t]: Next's local variable `counter`
    writes,      \* writes[t]: row versions written by t, not yet committed
    locks,       \* locks[t]: ids of the rows t holds the exclusive lock on
    failed,      \* failed[t]: a statement of t ended with a store error
    cancelled,   \* cancelled[t]: the ctx of the call in progress has fired
    behind,      \* behind[t]: who released the lock the call in progress waited for
    ret,         \* ret[t]: the counters Next returned to t, in call order
    last,        \* last[t]: the last operator call that returned to t
    calls,       \* calls[t]: operator calls t has made
    lastRelease, \* lastRelease[n]: who last released the lock on n's row
    lockOrder    \* lockOrder[n]: whom the locking read of Next on n was
                 \* granted to, grant after grant

vars == << db, status, pc, arg, counter, writes, locks, failed, cancelled,
           behind, ret, last, calls, lastRelease, lockOrder >>

\* ------------------------------------------------------------ the record
\* Counter{}: the zero value Next and CreateCounter return beside an error.
NoRow == [id |-> 0, name |-> "", value |-> 0, deleted |-> FALSE]

\* Value: 0 in CreateCounter's composite literal.
InitialValue == 0

NoCall == [op |-> "none", name |-> "", err |-> "none"]

Ids(S) == {r.id : r \in S}

\* The write is lost: the row keeps its old version.
SkipSave(S, r) == S

\* tx.Save(&counter): the row version replaces the version with the same
\* primary key.
Upsert(S, r) == {x \in S : x.id # r.id} \cup {r}

\* What transaction t reads: the committed rows, overridden by its own writes.
View(t) == {r \in db : r.id \notin Ids(writes[t])} \cup writes[t]

\* Rows written by every transaction still open.
AllWrites == UNION {writes[u] : u \in Txns}

\* The primary key of a newly inserted row.
NewId ==
    LET used == Ids(db) \cup Ids(AllWrites)
    IN  IF used = {} THEN 1
        ELSE 1 + (CHOOSE m \in used : \A x \in used : x <= m)

\* The transaction holding the exclusive lock on row id, 0 when it is free.
Holder(id) ==
    IF \E u \in Txns : id \in locks[u]
    THEN CHOOSE u \in Txns : id \in locks[u]
    ELSE 0

\* ---------------------------------------------------- the store's queries
\* The query without its name condition matches every row not marked deleted.
MatchingAnyName(t, n) == {r \in View(t) : ~r.deleted}

\* The unscoped query matches the rows marked deleted too.
MatchingUnscoped(t, n) == {r \in View(t) : r.name = n}

\* Where("name = ?", name) on a model with gorm.Model: rows of that name that
\* are not marked deleted, as transaction t sees them.
Matching(t, n) == {r \in View(t) : r.name = n /\ ~r.deleted}

\* First(&counter): ORDER BY id LIMIT 1.
First(S) == CHOOSE r \in S : \A x \in S : r.id <= x.id

\* A read without the locking clause never waits.
NeverBlocked(t, id) == FALSE

\* A lock manager that ends a wait on a holder that is itself waiting by
\* granting the lock.
BlockedUnlessWaiting(t, id) ==
    /\ Holder(id) \notin {0, t}
    /\ ~(pc[t] = "lockwait" /\ pc[Holder(id)] = "lockwait")

\* A lock that its own holder waits for too.
BlockedByOwnLock(t, id) == Holder(id) # 0

\* A lock on the whole table: the read waits while another transaction
\* holds a lock on any row.
BlockedByAnyLock(t, id) == \E u \in Txns \ {t} : locks[u] # {}

\* clause.Locking{Strength: "UPDATE"}: the read waits while another
\* transaction holds the exclusive lock on the row.
Blocked(t, id) == Holder(id) \notin {0, t}

\* The value is stepped by two.
IncrementTwice(v) == v + 2

\* The value is stepped down.
Decrement(v) == v - 1

\* counter.Value++
Increment(v) == v + 1

\* A table without the unique index accepts every insert.
NoUniqueIndex(t, n) == FALSE

\* A unique index over the rows not marked deleted only.
UniqueAmongActive(t, n) == \E r \in View(t) : r.name = n /\ ~r.deleted

\* gorm:"not null;unique" on Name: the unique index counts every row of the
\* table, the rows marked deleted included.
UniqueViolation(t, n) == \E r \in View(t) : r.name = n

\* An insert that does not wait for an uncommitted insert of the same key.
InsertNeverBlocked(t, n) == FALSE

\* An insert waits while another open transaction has inserted, and not yet
\* committed, a row with the same unique key.
InsertBlocked(t, n) ==
    \E u \in Txns \ {t} : \E r \in writes[u] : r.name = n /\ r.id \notin Ids(db)

\* The names of the rows whose lock t holds.
LockedNames(t) == {r.name : r \in {x \in View(t) : x.id \in locks[t]}}

\* Operator calls made so far by the transactions of T.
RECURSIVE SumCalls(_)
SumCalls(T) ==
    IF T = {} THEN 0
    ELSE LET u == CHOOSE x \in T : TRUE IN calls[u] + SumCalls(T \ {u})

\* The table after a test's set-up created the counters of S, one after the
\* other, each in a statement of its own: each has the next primary key.
FreshTable(S) ==
    {[id |-> Cardinality({j \in 1 .. i : NameSeq[j] \in S}),
      name |-> NameSeq[i], value |-> InitialValue, deleted |-> FALSE] :
        i \in {k \in 1 .. Len(NameSeq) : NameSeq[k] \in S}}

\* ------------------------------------------------------------------ Init
\* The table is empty after AutoMigrate; a test then creates none, one or
\* both of its counters before it starts its transactions.
Init ==
    /\ db \in {FreshTable(S) : S \in SUBSET Names}
    /\ status = [t \in Txns |-> "idle"]
    /\ pc = [t \in Txns |-> "ready"]
    /\ arg = [t \in Txns |-> ""]
    /\ counter = [t \in Txns |-> NoRow]
    /\ writes = [t \in Txns |-> {}]
    /\ locks = [t \in Txns |-> {}]
    /\ failed = [t \in Txns |-> FALSE]
    /\ cancelled = [t \in Txns |-> FALSE]
    /\ behind = [t \in Txns |-> 0]
    /\ ret = [t \in Txns |-> << >>]
    /\ last = [t \in Txns |-> NoCall]
    /\ calls = [t \in Txns |-> 0]
    /\ lastRelease = [n \in Names |-> 0]
    /\ lockOrder = [n \in Names |-> << >>]

\* ------------------------------------------------- the caller's transaction
\* db.Transaction(func(tx) ...) starts a transaction; transactions are
\* numbered in the order they start.
Begin(t) ==
    /\ status[t] = "idle"
    /\ \A u \in Txns : u < t => status[u] # "idle"
    /\ status' = [status EXCEPT ![t] = "open"]
    /\ UNCHANGED << db, pc, arg, counter, writes, locks, failed, cancelled,
                    behind, ret, last, calls, lastRelease >>
    /\ UNCHANGED lockOrder

\* The function given to db.Transaction returned nil: the writes of t become
\* the committed rows and its locks are released.
Commit(t) ==
    /\ status[t] = "open" /\ pc[t] = "ready" /\ ~failed[t]
    /\ db' = View(t)
    /\ status' = [status EXCEPT ![t] = "committed"]
    /\ lastRelease' = [n \in Names |->
                         IF n \in LockedNames(t) THEN t ELSE lastRelease[n]]
    /\ writes' = [writes EXCEPT ![t] = {}]
    /\ locks' = [locks EXCEPT ![t] = {}]
    /\ last' = [last EXCEPT ![t] = NoCall]
    /\ UNCHANGED << pc, arg, counter, failed, cancelled, behind, ret, calls >>
    /\ UNCHANGED lockOrder

\* A rollback that keeps the writes of t.
RollbackLeak(t) ==
    /\ status[t] = "open" /\ pc[t] = "ready"
    /\ db' = View(t)
    /\ status' = [status EXCEPT ![t] = "rolledback"]
    /\ lastRelease' = [n \in Names |->
                         IF n \in LockedNames(t) THEN t ELSE lastRelease[n]]
    /\ writes' = [writes EXCEPT ![t] = {}]
    /\ locks' = [locks EXCEPT ![t] = {}]
    /\ last' = [last EXCEPT ![t] = NoCall]
    /\ UNCHANGED << pc, arg, counter, failed, cancelled, behind, ret, calls >>
    /\ UNCHANGED lockOrder

\* The function given to db.Transaction returned an error: the writes of t
\* are discarded and its locks are released.
Rollback(t) ==
    /\ status[t] = "open" /\ pc[t] = "ready"
    /\ status' = [status EXCEPT ![t] = "rolledback"]
    /\ lastRelease' = [n \in Names |->
                         IF n \in LockedNames(t) THEN t ELSE lastRelease[n]]
    /\ writes' = [writes EXCEPT ![t] = {}]
    /\ locks' = [locks EXCEPT ![t] = {}]
    /\ last' = [last EXCEPT ![t] = NoCall]
    /\ UNCHANGED << db, pc, arg, counter, failed, cancelled, behind, ret,
                    calls >>
    /\ UNCHANGED lockOrder

\* ------------------------------------------------------------ the operator
\* t may call the operator: its transaction is open, no call is in progress,
\* and no earlier statement of it ended with a store error.
CanCall(t) ==
    /\ status[t] = "open" /\ pc[t] = "ready" /\ ~failed[t]
    /\ SumCalls(Txns) < MaxCalls

\* t makes an operator call.
Enters(t) == calls' = [calls EXCEPT ![t] = @ + 1]

\* A call returns to its caller.
Returns(t, op, n, err) ==
    last' = [last EXCEPT ![t] = [op |-> op, name |-> n, err |-> err]]

\* CreateCounter: tx.Create(&counter) with Value 0; the store's error is
\* returned as it is.
CreateCounter(t, n) ==
    /\ CanCall(t) /\ Enters(t)
    /\ ~InsertBlocked(t, n)
    /\ IF UniqueViolation(t, n)
       THEN /\ failed' = [failed EXCEPT ![t] = TRUE]
            /\ Returns(t, "Create", n, "DuplicateName")
            /\ UNCHANGED writes
       ELSE /\ writes' = [writes EXCEPT ![t] = @ \cup
                    {[id |-> NewId, name |-> n, value |-> InitialValue,
                      deleted |-> FALSE]}]
            /\ Returns(t, "Create", n, "ok")
            /\ UNCHANGED failed
    /\ UNCHANGED << db, status, pc, arg, counter, locks, cancelled, behind,
                    ret, lastRelease >>
    /\ UNCHANGED lockOrder

\* Next returns ErrRecordNotFound: no row matched.
NotFound(t, n) ==
    /\ Returns(t, "Next", n, "NotFound")
    /\ pc' = [pc EXCEPT ![t] = "ready"]
    /\ arg' = [arg EXCEPT ![t] = ""]
    /\ cancelled' = [cancelled EXCEPT ![t] = FALSE]
    /\ counter' = [counter EXCEPT ![t] = NoRow]
    /\ behind' = [behind EXCEPT ![t] = 0]
    /\ UNCHANGED locks
    /\ UNCHANGED lockOrder

\* The locking read is granted: t holds the lock on row r and has it in hand.
Acquire(t, n, r, after) ==
    /\ locks' = [locks EXCEPT ![t] = @ \cup {r.id}]
    /\ counter' = [counter EXCEPT ![t] = r]
    /\ behind' = [behind EXCEPT ![t] = after]
    /\ pc' = [pc EXCEPT ![t] = "inhand"]
    /\ arg' = [arg EXCEPT ![t] = n]
    /\ lockOrder' = [lockOrder EXCEPT ![n] = Append(@, t)]
    /\ UNCHANGED << last, cancelled >>

\* Next, the locking read: not found, granted at once, or the call blocks.
LockingRead(t, n) ==
    /\ Enters(t)
    /\ LET rows == Matching(t, n)
       IN  IF rows = {} THEN NotFound(t, n)
           ELSE IF Blocked(t, First(rows).id)
                THEN /\ pc' = [pc EXCEPT ![t] = "lockwait"]
                     /\ arg' = [arg EXCEPT ![t] = n]
                     /\ UNCHANGED << counter, locks, behind, last,
                                     cancelled, lockOrder >>
                ELSE Acquire(t, n, First(rows), 0)
    /\ UNCHANGED << db, status, writes, failed, ret, lastRelease >>

\* Next called inside an open transaction.
NextRead(t, n) == CanCall(t) /\ LockingRead(t, n)

\* Next, the blocked locking read is resumed when the lock holder's
\* transaction has ended: it reads the latest committed version of the row.
LockGranted(t) ==
    /\ pc[t] = "lockwait"
    /\ LET rows == Matching(t, arg[t])
       IN  IF rows = {} THEN NotFound(t, arg[t])
           ELSE /\ ~Blocked(t, First(rows).id)
                /\ Acquire(t, arg[t], First(rows), lastRelease[arg[t]])
    /\ UNCHANGED << db, status, writes, failed, ret, calls, lastRelease >>

\* The call leaves Next: its locals are gone.
EndNext(t) ==
    /\ pc' = [pc EXCEPT ![t] = "ready"]
    /\ arg' = [arg EXCEPT ![t] = ""]
    /\ counter' = [counter EXCEPT ![t] = NoRow]
    /\ behind' = [behind EXCEPT ![t] = 0]
    /\ cancelled' = [cancelled EXCEPT ![t] = FALSE]

\* Next: counter.Value++, tx.Save(&counter), return counter.
NextSave(t) ==
    /\ pc[t] = "inhand"
    /\ LET c == [counter[t] EXCEPT !.value = Increment(@)]
       IN  /\ writes' = [writes EXCEPT ![t] = Upsert(@, c)]
           /\ ret' = [ret EXCEPT ![t] = Append(@,
                        [name |-> c.name, value |-> c.value,
                         behind |-> behind[t]])]
    /\ Returns(t, "Next", arg[t], "ok")
    /\ EndNext(t)
    /\ UNCHANGED << db, status, locks, failed, calls, lastRelease >>
    /\ UNCHANGED lockOrder

\* Next keeps the counter in hand after a failed Save, to try again.
NextSaveErrorRetry(t) ==
    /\ pc[t] = "inhand" /\ ~failed[t]
    /\ failed' = [failed EXCEPT ![t] = TRUE]
    /\ Returns(t, "Next", arg[t], "StoreError")
    /\ UNCHANGED << db, status, pc, arg, counter, writes, locks, cancelled,
                    behind, ret, calls, lastRelease >>
    /\ UNCHANGED lockOrder

\* Next: tx.Save(&counter) ends with a store error, which Next returns.
NextSaveError(t) ==
    /\ pc[t] = "inhand"
    /\ failed' = [failed EXCEPT ![t] = TRUE]
    /\ Returns(t, "Next", arg[t], "StoreError")
    /\ EndNext(t)
    /\ UNCHANGED << db, status, writes, locks, ret, calls, lastRelease >>
    /\ UNCHANGED lockOrder

\* Next: the store ends the blocked read with an error (lock-wait timeout,
\* deadlock abort) while the lock is still held by another transaction;
\* Next returns the error.
LockWaitError(t) ==
    /\ pc[t] = "lockwait"
    /\ \E r \in Matching(t, arg[t]) : Blocked(t, r.id)
    /\ failed' = [failed EXCEPT ![t] = TRUE]
    /\ Returns(t, "Next", arg[t], "StoreError")
    /\ EndNext(t)
    /\ UNCHANGED << db, status, writes, locks, ret, calls, lastRelease >>
    /\ UNCHANGED lockOrder

\* The ctx given to Next fires while the call is blocked on a lock another
\* transaction holds.  Next never hands ctx to tx (no tx.WithContext(ctx)),
\* so nothing but the ctx changes.
CancelCtx(t) ==
    /\ pc[t] = "lockwait" /\ ~cancelled[t]
    /\ \E r \in Matching(t, arg[t]) : Blocked(t, r.id)
    /\ cancelled' = [cancelled EXCEPT ![t] = TRUE]
    /\ UNCHANGED << db, status, pc, arg, counter, writes, locks, failed,
                    behind, ret, last, calls, lastRelease >>
    /\ UNCHANGED lockOrder

\* A DeleteCounter that reports a missing counter as an error.
DeleteCounterStrict(t, n) ==
    /\ CanCall(t) /\ Enters(t)
    /\ LET rows == Matching(t, n)
       IN  /\ \A r \in rows : ~Blocked(t, r.id)
           /\ writes' = [writes EXCEPT ![t] =
                  {x \in @ : x.id \notin Ids(rows)} \cup
                  {[r EXCEPT !.deleted = TRUE] : r \in rows}]
           /\ locks' = [locks EXCEPT ![t] = @ \cup Ids(rows)]
           /\ Returns(t, "Delete", n, IF rows = {} THEN "NotFound" ELSE "ok")
    /\ UNCHANGED << db, status, pc, arg, counter, failed, cancelled, behind,
                    ret, lastRelease >>
    /\ UNCHANGED lockOrder

\* DeleteCounter: tx.Where("name = ?", name).Delete(&Counter{}) marks every
\* matching row deleted; no matching row is no error.  The update waits for
\* the lock on each row it writes.
DeleteCounter(t, n) ==
    /\ CanCall(t) /\ Enters(t)
    /\ LET rows == Matching(t, n)
       IN  /\ \A r \in rows : ~Blocked(t, r.id)
           /\ writes' = [writes EXCEPT ![t] =
                  {x \in @ : x.id \notin Ids(rows)} \cup
                  {[r EXCEPT !.deleted = TRUE] : r \in rows}]
           /\ locks' = [locks EXCEPT ![t] = @ \cup Ids(rows)]
    /\ Returns(t, "Delete", n, "ok")
    /\ UNCHANGED << db, status, pc, arg, counter, failed, cancelled, behind,
                    ret, lastRelease >>
    /\ UNCHANGED lockOrder

\* DeleteCounter: the store's error is returned as it is.
DeleteCounterError(t, n) ==
    /\ CanCall(t) /\ Enters(t)
    /\ failed' = [failed EXCEPT ![t] = TRUE]
    /\ Returns(t, "Delete", n, "StoreError")
    /\ UNCHANGED << db, status, pc, arg, counter, writes, locks, cancelled,
                    behind, ret, lastRelease >>
    /\ UNCHANGED lockOrder

\* --------------------------------------------------------- specification
Next ==
    \E t \in Txns :
        \/ Begin(t)
        \/ Commit(t)
        \/ Rollback(t)
        \/ \E n \in Names : CreateCounter(t, n)
        \/ \E n \in Names : NextRead(t, n)
        \/ LockGranted(t)
        \/ NextSave(t)
        \/ NextSaveError(t)
        \/ LockWaitError(t)
        \/ CancelCtx(t)
        \/ \E n \in Names : DeleteCounter(t, n)
        \/ \E n \in Names : DeleteCounterError(t, n)

Spec == Init /\ [][Next]_vars

\* ------------------------------------ transactions locking several counters
\* TestMultipleNamesConcurrent: each transaction makes Next calls only, one
\* on each counter, and then commits or rolls back.  t may call Next on n
\* when it has not yet done so.
CanCallNext(t, n) ==
    /\ status[t] = "open" /\ pc[t] = "ready" /\ ~failed[t]
    /\ n \notin LockedNames(t)

\* Next inside such a transaction; the operator takes the names as the
\* caller gives them, in any order.
NextReadAny(t, n) == CanCallNext(t, n) /\ LockingRead(t, n)

NextLocks ==
    \E t \in Txns :
        \/ Begin(t)
        \/ Commit(t)
        \/ Rollback(t)
        \/ \E n \in Names : NextReadAny(t, n)
        \/ LockGranted(t)
        \/ NextSave(t)
        \/ LockWaitError(t)

\* The test's set-up has created every counter before the transactions start.
InitLocks == Init /\ db = FreshTable(Names)

SpecLocks == InitLocks /\ [][NextLocks]_vars

\* The place of name n in the order the callers agree on.
NameIdx(n) == CHOOSE i \in 1 .. Len(NameSeq) : NameSeq[i] = n

\* A caller that takes the names as they come.
AnyOrder(t, n) == TRUE

\* The caller's discipline in TestMultipleNamesConcurrent: Next on n0, then
\* Next on n1; t calls Next on n only after every name it has locked.
InOrder(t, n) == \A m \in LockedNames(t) : NameIdx(m) < NameIdx(n)

NextReadOrdered(t, n) == InOrder(t, n) /\ NextReadAny(t, n)

\* The ordered callers, with a store that ends no wait with an error.
NextOrdered ==
    \E t \in Txns :
        \/ Begin(t)
        \/ Commit(t)
        \/ Rollback(t)
        \/ \E n \in Names : NextReadOrdered(t, n)
        \/ LockGranted(t)
        \/ NextSave(t)

\* The function given to db.Transaction returns once no call of it is in
\* progress, so the transaction ends; the store grants a free lock to a
\* waiting read; a call that has the row in hand goes on to save it.
FairOrdered ==
    \A t \in Txns :
        /\ WF_vars(Commit(t) \/ Rollback(t))
        /\ WF_vars(LockGranted(t))
        /\ WF_vars(NextSave(t))

SpecOrdered == InitLocks /\ [][NextOrdered]_vars /\ FairOrdered

\* ------------------------------------ transactions calling Next repeatedly
\* Each transaction makes Next calls only, as many as it likes and on
\* whatever names, and then commits or rolls back.
CanCallAgain(t) ==
    /\ status[t] = "open" /\ pc[t] = "ready" /\ ~failed[t]
    /\ SumCalls(Txns) < MaxNexts

NextReadAgain(t, n) == CanCallAgain(t) /\ LockingRead(t, n)

NextRepeat ==
    \E t \in Txns :
        \/ Begin(t)
        \/ Commit(t)
        \/ Rollback(t)
        \/ \E n \in Names : NextReadAgain(t, n)
        \/ LockGranted(t)
        \/ NextSave(t)

SpecRepeat == InitLocks /\ [][NextRepeat]_vars

\* ------------------------------------------- callers without a transaction
\* TestSingleName and the other sequential tests hand Next the db handle
\* itself: each statement then runs, and commits, on its own.  Here the
\* callers do so side by side.

\* A statement that kept its row lock after it committed.
KeepLock(t, r) == {r.id}

\* The row locks t holds once a statement run outside a transaction has
\* committed: none.
StatementLocks(t, r) == {}

\* t, outside any transaction, may call the operator.
CanCallAuto(t) ==
    /\ status[t] = "idle" /\ pc[t] = "ready"
    /\ SumCalls(Txns) < MaxCalls

\* Next on the db handle, the locking read: a statement of its own.
AutoNextRead(t, n) ==
    /\ CanCallAuto(t) /\ Enters(t)
    /\ LET rows == Matching(t, n)
       IN  IF rows = {} THEN NotFound(t, n)
           ELSE /\ ~Blocked(t, First(rows).id)
                /\ locks' = [locks EXCEPT ![t] =
                                StatementLocks(t, First(rows))]
                /\ counter' = [counter EXCEPT ![t] = First(rows)]
                /\ pc' = [pc EXCEPT ![t] = "inhand"]
                /\ arg' = [arg EXCEPT ![t] = n]
                /\ lockOrder' = [lockOrder EXCEPT ![n] = Append(@, t)]
                /\ UNCHANGED << behind, last, cancelled >>
    /\ UNCHANGED << db, status, writes, failed, ret, lastRelease >>

\* Next on the db handle: counter.Value++, then Save as a statement of its
\* own, committed at once; return counter.
AutoNextSave(t) ==
    /\ status[t] = "idle" /\ pc[t] = "inhand"
    /\ LET c == [counter[t] EXCEPT !.value = Increment(@)]
       IN  /\ db' = Upsert(db, c)
           /\ ret' = [ret EXCEPT ![t] = Append(@,
                        [name |-> c.name, value |-> c.value,
                         behind |-> behind[t]])]
    /\ locks' = [locks EXCEPT ![t] = {}]
    /\ Returns(t, "Next", arg[t], "ok")
    /\ EndNext(t)
    /\ UNCHANGED << status, writes, failed, calls, lastRelease, lockOrder >>

NextAuto ==
    \E t \in Txns :
        \/ \E n \in Names : AutoNextRead(t, n)
        \/ AutoNextSave(t)

SpecAuto == Init /\ [][NextAuto]_vars

\* ------------------------------------------------- what the claims speak of
\* The calls of t that returned a value of counter n, as indexes of ret[t].
RetIdx(t, n) == {i \in 1 .. Len(ret[t]) : ret[t][i].name = n}

\* The transactions Next returned a value of counter n to.
Callers(n) == {t \in Txns : RetIdx(t, n) # {}}

\* The values of counter n returned to the transactions of T.
ValuesOf(T, n) == UNION {{ret[t][i].value : i \in RetIdx(t, n)} : t \in T}

Committed == {t \in Txns : status[t] = "committed"}
RolledBack == {t \in Txns : status[t] = "rolledback"}

\* The number of calls that returned a value of counter n to a transaction of T.
RECURSIVE CallCount(_, _)
CallCount(T, n) ==
    IF T = {} THEN 0
    ELSE LET u == CHOOSE x \in T : TRUE
         IN  Cardinality(RetIdx(u, n)) + CallCount(T \ {u}, n)

\* The active counters of name n that t sees, read off the table itself.
ActiveCounter(t, n) == {r \in View(t) : r.name = n /\ r.deleted = FALSE}

\* An operator call of t returns in this step; last'[t] says which and how.
Returned(t) ==
    \/ pc[t] # "ready" /\ pc'[t] = "ready"
    \/ pc[t] = "ready" /\ pc'[t] = "ready" /\ calls'[t] = calls[t] + 1

\* ------------------------------------------------------------------ claims

\* C1. Gapless commit sequence under concurrency: when the K transactions
\* that Next returned a value of counter n to have each called Next once on n
\* and have all committed, the values returned are exactly 1 .. K, whatever
\* the interleaving (K values filling 1 .. K: none twice, none missing).
C1_GaplessConcurrent ==
    \A n \in Names :
        LET K == Callers(n)
        IN  (/\ K # {}
             /\ \A t \in K : status[t] = "committed"
             /\ \A t \in K : Cardinality(RetIdx(t, n)) = 1)
            => ValuesOf(K, n) = 1 .. Cardinality(K)

\* Two transactions called Next once on the same counter and both committed,
\* the second after waiting for the lock the first held.
C1_Witness ==
    \E t, u \in Txns :
        /\ t # u /\ status[t] = "committed" /\ status[u] = "committed"
        /\ Len(ret[t]) = 1 /\ Len(ret[u]) = 1
        /\ ret[t][1].name = ret[u][1].name
        /\ ret[u][1].behind = t
        /\ Callers(ret[t][1].name) = {t, u}

\* C2. Rollback consumes no value: when the K transactions that Next returned
\* a value of counter n to have each called Next once on n and have all ended,
\* M by rollback and K-M by commit, the values returned to the committed ones
\* are exactly 1 .. K-M; and a call that waited for a lock released by a
\* rollback returns the value the rolled-back transaction was first given.
C2_RollbackConsumesNoValue ==
    /\ \A n \in Names :
        LET K == Callers(n)
        IN  (/\ K # {}
             /\ \A t \in K : status[t] \in {"committed", "rolledback"}
             /\ \A t \in K : Cardinality(RetIdx(t, n)) = 1)
            => ValuesOf(K \cap Committed, n) = 1 .. Cardinality(K \cap Committed)
    /\ \A u \in Txns : \A i \in 1 .. Len(ret[u]) :
        LET t == ret[u][i].behind
            n == ret[u][i].name
        IN  (t # 0 /\ status[t] = "rolledback" /\ RetIdx(t, n) # {})
            => ret[u][i].value =
                   ret[t][CHOOSE j \in RetIdx(t, n) :
                              \A k \in RetIdx(t, n) : j <= k].value

\* A transaction was given a value and rolled back; the transaction that
\* waited behind it was given the same value and committed.
C2_Witness ==
    \E t, u \in Txns :
        /\ t # u /\ status[t] = "rolledback" /\ status[u] = "committed"
        /\ Len(ret[t]) = 1 /\ Len(ret[u]) = 1
        /\ ret[u][1].behind = t
        /\ ret[u][1].name = ret[t][1].name
        /\ ret[u][1].value = ret[t][1].value

\* C3. Sequentiality: a CreateCounter that succeeds leaves one active
\* counter of that name, with value 0; and a Next call that returns while no
\* other transaction is open returns i, where i counts the Next calls on that
\* counter made before it by committed transactions and by its own
\* transaction, plus this one.
C3_Sequentiality ==
    [][\A t \in Txns :
        /\ (Returned(t) /\ last'[t].op = "Create" /\ last'[t].err = "ok")
           => \E r \in writes'[t] \ writes[t] :
                 /\ r.name = last'[t].name /\ r.value = 0 /\ ~r.deleted
                 /\ ActiveCounter(t, r.name)' = {r}
        /\ (ret'[t] # ret[t] /\ \A u \in Txns \ {t} : status[u] # "open")
           => LET e == ret'[t][Len(ret'[t])]
              IN  e.value = CallCount(Committed, e.name)
                              + Cardinality(RetIdx(t, e.name)) + 1
      ]_vars

\* Three Next calls on one counter, one after the other and none waiting for
\* a lock, two in a first transaction and one in a second, both committed:
\* they were given 1, 2 and 3.
C3_Witness ==
    /\ \A t \in {1, 2} : status[t] = "committed"
    /\ ret[1] = << [name |-> "n0", value |-> 1, behind |-> 0],
                   [name |-> "n0", value |-> 2, behind |-> 0] >>
    /\ ret[2] = << [name |-> "n0", value |-> 3, behind |-> 0] >>
    /\ \E r \in db : r.name = "n0" /\ r.value = 3

\* A step of an operator call of t, and the counter name it was called with.
OpStep(t) ==
    pc'[t] # pc[t] \/ calls'[t] # calls[t] \/ cancelled'[t] # cancelled[t]
OpStepName(t) ==
    IF pc[t] # "ready" THEN arg[t]
    ELSE IF pc'[t] # "ready" THEN arg'[t] ELSE last'[t].name
RowsOf(S, b) == {r \in S : r.name = b}

\* C4. Isolation across names: a step of CreateCounter, Next or DeleteCounter
\* called with name a changes no row of another name b, committed or
\* written, and no lock on one; and the value a Next on a returns is one
\* more than the value of the counter a, whatever the other counters are.
C4_Isolation ==
    [][\A t \in Txns :
        OpStep(t) =>
          LET a == OpStepName(t)
          IN  /\ \A b \in Names \ {a} :
                   /\ RowsOf(db', b) = RowsOf(db, b)
                   /\ \A u \in Txns :
                        /\ RowsOf(writes'[u], b) = RowsOf(writes[u], b)
                        /\ (b \in LockedNames(u))' = (b \in LockedNames(u))
              /\ ret'[t] # ret[t] =>
                   /\ Len(ret'[t]) = Len(ret[t]) + 1
                   /\ \A i \in 1 .. Len(ret[t]) : ret'[t][i] = ret[t][i]
                   /\ ret'[t][Len(ret'[t])].name = a
                   /\ \E r \in ActiveCounter(t, a) :
                        ret'[t][Len(ret'[t])].value = r.value + 1
      ]_vars

\* Two transactions open at the same time, one given the value 1 of n0 and
\* the other the value 1 of n1.
C4_Witness ==
    \E t, u \in Txns :
        /\ t # u /\ status[t] = "open" /\ status[u] = "open"
        /\ ret[t] # << >> /\ ret[u] # << >>
        /\ ret[t][1].name = "n0" /\ ret[u][1].name = "n1"
        /\ ret[t][1].value = 1 /\ ret[u][1].value = 1

\* C5. Missing-counter error: a Next call that returns when its transaction
\* sees no active counter of the name (never created, or deleted) returns
\* the not-found error, returns no value and changes no row and no lock.
C5_MissingCounter ==
    [][\A t \in Txns : \A n \in Names :
        (/\ Returned(t) /\ last'[t].op = "Next" /\ last'[t].name = n
         /\ ActiveCounter(t, n) = {})
        => /\ last'[t].err = "NotFound"
           /\ ret' = ret /\ db' = db /\ writes' = writes /\ locks' = locks
      ]_vars

\* Next returned not-found for a counter that was created and then deleted.
C5_Witness ==
    \E t \in Txns :
        /\ last[t].op = "Next" /\ last[t].err = "NotFound"
        /\ \E r \in db : r.name = last[t].name /\ r.deleted

\* C6. Duplicate-create error: a CreateCounter call made when its
\* transaction sees an active counter of the name returns the duplicate-name
\* error, inserts no row and leaves every row, the counter's included, as
\* it was.
C6_DuplicateCreate ==
    [][\A t \in Txns : \A n \in Names :
        (/\ Returned(t) /\ last'[t].op = "Create" /\ last'[t].name = n
         /\ ActiveCounter(t, n) # {})
        => /\ last'[t].err = "DuplicateName"
           /\ db' = db /\ writes' = writes /\ ret' = ret
      ]_vars

\* CreateCounter returned the duplicate-name error for a counter that is
\* active, with a value Next has given it.
C6_Witness ==
    \E t \in Txns :
        /\ last[t].op = "Create" /\ last[t].err = "DuplicateName"
        /\ \E r \in db : r.name = last[t].name /\ ~r.deleted /\ r.value > 0

\* C7. Idempotent delete: a DeleteCounter call made when its transaction
\* sees no active counter of the name fails only with an error of the store
\* itself, never because the counter is missing, and changes no row and no
\* lock; and after a DeleteCounter that succeeded the transaction sees no
\* active counter of the name, so that a second call is such a call.
C7_IdempotentDelete ==
    [][\A t \in Txns : \A n \in Names :
        (Returned(t) /\ last'[t].op = "Delete" /\ last'[t].name = n)
        => /\ ActiveCounter(t, n) = {} =>
                /\ last'[t].err \in {"ok", "StoreError"}
                /\ db' = db /\ writes' = writes /\ locks' = locks
           /\ last'[t].err = "ok" => ActiveCounter(t, n)' = {}
      ]_vars

\* A transaction's second call was a DeleteCounter that succeeded on a
\* counter the transaction already saw deleted.
C7_Witness ==
    \E t \in Txns :
        /\ last[t].op = "Delete" /\ last[t].err = "ok" /\ calls[t] = 2
        /\ \E r \in writes[t] : r.name = last[t].name /\ r.deleted
        /\ \A r \in writes[t] : r.value = 0
        /\ \E r \in db : r.name = last[t].name /\ ~r.deleted

\* C8. Cancellation: when the ctx given to a Next call has fired while the
\* call is blocked on the row lock, the call leaves the wait only by
\* returning an error, and with every row, lock and returned value as it was.
C8_CancelAbortsWait ==
    [][\A t \in Txns :
        (cancelled[t] /\ pc[t] = "lockwait" /\ pc'[t] # "lockwait")
        => /\ pc'[t] = "ready" /\ last'[t].err # "ok"
           /\ db' = db /\ writes' = writes /\ locks' = locks /\ ret' = ret
      ]_vars

\* C9. Failure atomicity: a call that fails returns to its caller (no
\* retry) and leaves the transaction open and the committed rows as they
\* were; a rollback leaves the committed rows as they were and drops the
\* writes and locks of the transaction; and the committed rows change only
\* when a transaction without a failed statement commits.  So the committed
\* rows after a failed call and the rollback are those from before the
\* transaction, but for what other transactions committed.
C9_FailureAtomicity ==
    [][\A t \in Txns :
        /\ ((Returned(t) /\ last'[t].err # "ok") \/ (failed'[t] /\ ~failed[t]))
           => pc'[t] = "ready" /\ status' = status /\ db' = db
        /\ (status[t] = "open" /\ status'[t] = "rolledback")
           => db' = db /\ writes'[t] = {} /\ locks'[t] = {}
        /\ db' # db
           => \E u \in Txns : /\ status[u] = "open" /\ ~failed[u]
                              /\ status'[u] = "committed"
      ]_vars

\* A transaction was given a value by Next, then a call of it failed on a
\* store error, and it rolled back: the counter's committed value is still
\* below the value given.
C9_Witness ==
    \E t \in Txns :
        /\ status[t] = "rolledback" /\ failed[t] /\ Len(ret[t]) = 1
        /\ \E r \in db : r.name = ret[t][1].name /\ r.value < ret[t][1].value

\* C10. Committed-value invariant: in every reachable state the committed
\* value of an active counter is the number of Next calls on it made by
\* committed transactions, and the values those calls returned are exactly
\* 1 .. k.
C10_CommittedValue ==
    \A r \in db :
        ~r.deleted =>
            /\ r.value = CallCount(Committed, r.name)
            /\ ValuesOf(Committed, r.name) = 1 .. r.value

\* A counter at committed value 2 that a rolled-back transaction was also
\* given a value of.
C10_Witness ==
    \E r \in db :
        /\ ~r.deleted /\ r.value = 2
        /\ \E t \in RolledBack : RetIdx(t, r.name) # {}

\* C11. Monotonicity: the committed value of a counter never decreases, and
\* it changes only in the step in which a transaction that Next returned a
\* value of that counter to commits: no CreateCounter, DeleteCounter, failed
\* call or rollback changes it.
C11_Monotonicity ==
    [][\A r \in db : \A x \in db' :
        x.id = r.id
        => /\ x.name = r.name
           /\ x.value >= r.value
           /\ x.value # r.value
              => \E t \in Txns : /\ status[t] = "open"
                                 /\ status'[t] = "committed"
                                 /\ RetIdx(t, r.name) # {}
                                 /\ ~r.deleted
      ]_vars

\* A counter at committed value 1 after one transaction given 1 committed
\* and another, given 2, rolled back.
C11_Witness ==
    \E r \in db : \E t, u \in Txns :
        /\ ~r.deleted /\ r.value = 1
        /\ status[t] = "committed" /\ status[u] = "rolledback"
        /\ ValuesOf({t}, r.name) = {1} /\ ValuesOf({u}, r.name) = {2}

\* Transaction t is open and has completed the locking read of a Next on n:
\* it has the row in hand, or the call has returned its value.
HasRead(t, n) ==
    /\ status[t] = "open"
    /\ \/ pc[t] = "inhand" /\ arg[t] = n
       \/ RetIdx(t, n) # {}

\* C12. Serialization on one name: no two open transactions have both
\* completed the locking read of Next on the same name; no row lock is held
\* by two transactions; a transaction that completed the locking read on n
\* holds the lock on n's row for as long as it is open; and a transaction
\* that has ended holds no lock.
C12_Serialization ==
    /\ \A t, u \in Txns : \A n \in Names :
           (t # u /\ HasRead(t, n)) => ~HasRead(u, n)
    /\ \A t, u \in Txns : t # u => locks[t] \cap locks[u] = {}
    /\ \A t \in Txns : \A n \in Names :
           HasRead(t, n)
           => \E r \in View(t) : r.name = n /\ r.id \in locks[t]
    /\ \A t \in Txns : status[t] # "open" => locks[t] = {}

\* A transaction was returned a value of a counter and is still open, and
\* another transaction's Next on the same counter waits for the lock.
C12_Witness ==
    \E t, u \in Txns : \E n \in Names :
        /\ t # u /\ HasRead(t, n) /\ pc[t] = "ready"
        /\ pc[u] = "lockwait" /\ arg[u] = n

\* The value returned by the call whose locking read was the i-th granted
\* on name n: the grant is the m-th of its transaction on n, and so is the
\* call among those that returned a value of n to the transaction.
GrantValue(n, i) ==
    LET t == lockOrder[n][i]
        m == Cardinality({k \in 1 .. i : lockOrder[n][k] = t})
        x == CHOOSE y \in RetIdx(t, n) :
                 Cardinality({z \in RetIdx(t, n) : z <= y}) = m
    IN  ret[t][x].value

\* C13. Commit order equals lock order: of two locking reads of Next granted
\* on the same name to transactions that have both committed, the one granted
\* first returned the smaller value.
C13_LockOrder ==
    \A n \in Names : \A i, j \in 1 .. Len(lockOrder[n]) :
        (/\ i < j
         /\ status[lockOrder[n][i]] = "committed"
         /\ status[lockOrder[n][j]] = "committed")
        => GrantValue(n, i) < GrantValue(n, j)

\* Three locking reads on one counter, the first two granted to one
\* transaction and the third, after a wait, to another; both committed.
C13_Witness ==
    \E t, u \in Txns : \E n \in Names :
        /\ t # u /\ status[t] = "committed" /\ status[u] = "committed"
        /\ lockOrder[n] = << t, t, u >>
        /\ ret[u][1].behind = t

\* No transaction other than t holds the lock on the row of name a.
NoOtherHolds(t, a) == \A u \in Txns \ {t} : a \notin LockedNames(u)

\* C14. No contention across names: whenever no other transaction holds the
\* lock on a's row, whatever locks are held on rows of other names, a
\* transaction that may call Next(a) completes its locking read without
\* waiting, and a Next(a) that was waiting can resume; and a Next(a) starts
\* to wait only when another transaction holds the lock on a's row.
C14_NoContentionAcrossNames ==
    /\ [](\A t \in Txns : \A a \in Names :
            /\ (CanCall(t) /\ NoOtherHolds(t, a))
               => ENABLED (NextRead(t, a) /\ pc'[t] # "lockwait")
            /\ (pc[t] = "lockwait" /\ arg[t] = a /\ NoOtherHolds(t, a))
               => ENABLED LockGranted(t))
    /\ [][\A t \in Txns : \A a \in Names :
            (pc[t] = "ready" /\ pc'[t] = "lockwait" /\ arg'[t] = a)
            => ~NoOtherHolds(t, a)
         ]_vars

\* A transaction has the row of one counter in hand, granted without a wait,
\* while another open transaction holds the lock on the other counter's row.
C14_Witness ==
    \E t, u \in Txns : \E a, b \in Names :
        /\ t # u /\ a # b
        /\ status[u] = "open" /\ LockedNames(u) = {b} /\ RetIdx(u, b) # {}
        /\ pc[t] = "inhand" /\ arg[t] = a /\ behind[t] = 0
        /\ LockedNames(t) = {a}

\* The Next call of t waits for a row lock that u holds.
WaitsFor(t, u) ==
    /\ t # u /\ pc[t] = "lockwait" /\ arg[t] \in LockedNames(u)

\* Every transaction of S waits for a lock held by a transaction of S.
Deadlocked(S) == S # {} /\ \A t \in S : \E u \in S : WaitsFor(t, u)

\* C16. Deadlock hazard: when transactions that call Next on several names
\* in whatever order they like each hold a row lock and wait for a lock
\* another of them holds, none of them can take a step of its own: its read
\* is not granted, and it cannot save, call again, commit or roll back.  The
\* operator has nothing that resolves or avoids the state; it is left only
\* when the store ends one of the waits with an error.
C16_DeadlockHazard ==
    \A S \in SUBSET Txns :
        Deadlocked(S)
        => \A t \in S :
              /\ ~ENABLED LockGranted(t)
              /\ ~ENABLED NextSave(t)
              /\ ~ENABLED (\E n \in Names : NextReadAny(t, n))
              /\ ~ENABLED Commit(t)
              /\ ~ENABLED Rollback(t)

\* One transaction was returned a value of a and waits in Next(b); the other
\* was returned a value of b and waits in Next(a).
C16_Witness ==
    \E t, u \in Txns : \E a, b \in Names :
        /\ t # u /\ a # b
        /\ RetIdx(t, a) # {} /\ LockedNames(t) = {a}
        /\ pc[t] = "lockwait" /\ arg[t] = b
        /\ RetIdx(u, b) # {} /\ LockedNames(u) = {b}
        /\ pc[u] = "lockwait" /\ arg[u] = a
        /\ Deadlocked({t, u})

\* C15. Deadlock freedom under ordered locking: when every transaction calls
\* Next on the names in the one agreed order and every transaction with no
\* call in progress eventually commits or rolls back, no set of transactions
\* ever wait for each other, and every Next that waits for a lock is
\* eventually granted it and returns its value.
C15_OrderedLocking ==
    /\ [](\A S \in SUBSET Txns : ~Deadlocked(S))
    /\ \A t \in Txns :
          (pc[t] = "lockwait") ~> (pc[t] = "inhand")
    /\ \A t \in Txns :
          (pc[t] = "inhand")
              ~> (pc[t] = "ready" /\ last[t].op = "Next" /\ last[t].err = "ok")

\* Both transactions locked n0 and then n1, the second after the first on
\* each and waiting on n0 for the first to end, and both have committed.
C15_Witness ==
    \E t, u \in Txns :
        /\ t # u /\ status[t] = "committed" /\ status[u] = "committed"
        /\ \A n \in Names : lockOrder[n] = << t, u >>
        /\ ret[u][1].behind = t

\* The rows of name n not marked deleted, among the rows of S, by id.
ActiveIds(S, n) == {r.id : r \in {x \in S : x.name = n /\ ~x.deleted}}

\* C17. Name uniqueness: in every reachable state there is at most one
\* active counter of each name, among the committed rows, in the view of
\* each transaction, and among the committed rows and the uncommitted
\* writes of all transactions together; so of two transactions that call
\* CreateCounter with the same name at most one inserts a row.
C17_NameUniqueness ==
    /\ \A r, x \in db \cup AllWrites :
          (r.name = x.name /\ ~r.deleted /\ ~x.deleted) => r.id = x.id
    /\ \A n \in Names :
          /\ Cardinality(ActiveIds(db, n)) <= 1
          /\ \A t \in Txns : status[t] = "open"
                               => Cardinality(ActiveIds(View(t), n)) <= 1

\* Counter n0 was created by a transaction (its id follows that of n1, which
\* the set-up created) and is committed, and the CreateCounter of another
\* transaction with the same name returned DuplicateName.
C17_Witness ==
    \E u \in Txns :
        /\ last[u] = [op |-> "Create", name |-> NameSeq[1],
                      err |-> "DuplicateName"]
        /\ \E r \in db : r.name = NameSeq[1] /\ r.id = 2 /\ ~r.deleted
        /\ \E t \in Txns \ {u} : status[t] = "committed" /\ calls[t] = 1

\* The lifecycle state of the counter of name n among the rows of S.
Life(S, n) ==
    IF \A r \in S : r.name # n THEN "nonexistent"
    ELSE IF \E r \in S : r.name = n /\ ~r.deleted THEN "active"
    ELSE "deleted"

\* C18. Lifecycle transitions: an operator step of a transaction changes the
\* lifecycle state of a counter, as the transaction sees it, only from
\* nonexistent to active, by a successful CreateCounter of that name, or
\* from active to deleted, by a successful DeleteCounter of that name, so
\* Next changes none; among the committed rows a deleted counter stays
\* deleted and an active one never becomes nonexistent; and CreateCounter
\* with the name of a deleted counter returns DuplicateName and changes no
\* row.
C18_Lifecycle ==
    [][/\ \A t \in Txns :
            OpStep(t)
            => \A n \in Names :
                 LET a == Life(View(t), n)
                     b == Life(View(t)', n)
                 IN  /\ a # b
                        => /\ Returned(t)
                           /\ last'[t].name = n /\ last'[t].err = "ok"
                           /\ \/ /\ a = "nonexistent" /\ b = "active"
                                 /\ last'[t].op = "Create"
                              \/ /\ a = "active" /\ b = "deleted"
                                 /\ last'[t].op = "Delete"
                     /\ (/\ Returned(t) /\ last'[t].op = "Create"
                         /\ last'[t].name = n /\ a = "deleted")
                        => /\ last'[t].err = "DuplicateName"
                           /\ db' = db /\ writes' = writes
       /\ db' # db
          => \A n \in Names :
               /\ Life(db, n) = "deleted" => Life(db', n) = "deleted"
               /\ Life(db, n) = "active" => Life(db', n) # "nonexistent"
      ]_vars

\* CreateCounter returned DuplicateName for a name whose counter the
\* transaction sees marked deleted.
C18_Witness ==
    \E t \in Txns :
        /\ last[t].op = "Create" /\ last[t].err = "DuplicateName"
        /\ Life(View(t), last[t].name) = "deleted"
        /\ Life(db, last[t].name) = "deleted"

\* The values of counter n returned to t, in call order.
GivenOf(t, n) ==
    LET s == SelectSeq(ret[t], LAMBDA e : e.name = n)
    IN  [i \in 1 .. Len(s) |-> s[i].value]

\* The committed value of counter n; a counter not yet committed has the
\* value it is created with.
CommittedValue(n) ==
    IF \E r \in db : r.name = n
    THEN (CHOOSE r \in db : r.name = n).value
    ELSE InitialValue

\* C19. Several Next calls in one transaction: a Next never waits for a
\* lock its own transaction holds; the j values of counter n returned to a
\* transaction are v+1, ..., v+j in call order, v being the committed value
\* while the transaction is open; its commit makes the committed value v+j,
\* its rollback leaves it v; and a call that waited for the lock a
\* rolled-back transaction released is given the first of its values again.
C19_RepeatedNext ==
    /\ [](\A t \in Txns : \A n \in Names :
            LET s == GivenOf(t, n)
            IN  /\ pc[t] = "lockwait" => arg[t] \notin LockedNames(t)
                /\ \A i \in 1 .. Len(s) : s[i] = s[1] + (i - 1)
                /\ (status[t] = "open" /\ Len(s) > 0)
                   => s[1] = CommittedValue(n) + 1
                /\ \A u \in Txns : \A i \in RetIdx(u, n) :
                      (ret[u][i].behind = t /\ status[t] = "rolledback"
                       /\ Len(s) > 0)
                      => ret[u][i].value = s[1])
    /\ [][\A t \in Txns : \A n \in Names :
            LET j == Len(GivenOf(t, n))
            IN  j > 0
                => /\ (status[t] = "open" /\ status'[t] = "committed")
                      => CommittedValue(n)' = CommittedValue(n) + j
                   /\ (status[t] = "open" /\ status'[t] = "rolledback")
                      => CommittedValue(n)' = CommittedValue(n)
         ]_vars

\* A transaction was given 1 and 2 of a counter and rolled back; the next
\* one, which had waited for it, was given 1 and 2 again and committed.
C19_Witness ==
    \E t, u \in Txns : \E n \in Names :
        /\ t # u /\ status[t] = "rolledback" /\ status[u] = "committed"
        /\ GivenOf(t, n) = << 1, 2 >> /\ GivenOf(u, n) = << 1, 2 >>
        /\ ret[u][1].behind = t
        /\ CommittedValue(n) = 2

\* C20. Uniqueness depends on the enclosing transaction: when Next is called
\* outside a transaction no row lock is held once the locking read has
\* completed, so none between the read and the write; the call returns, and
\* writes as the committed value, one more than the value it read, whatever
\* has been committed since; and so the committed value of a counter can be
\* less than the number of calls that returned a value of it.
C20_AutocommitNext ==
    /\ [](\A t \in Txns : locks[t] = {})
    /\ [](\A n \in Names : CommittedValue(n) <= CallCount(Txns, n))
    /\ [][\A t \in Txns : \A n \in Names :
            (pc[t] = "inhand" /\ arg[t] = n /\ pc'[t] = "ready")
            => /\ Len(ret'[t]) = Len(ret[t]) + 1
               /\ ret'[t][Len(ret'[t])].value = counter[t].value + 1
               /\ CommittedValue(n)' = counter[t].value + 1
         ]_vars

\* Two callers outside a transaction both read a counter at 0, and both
\* calls returned 1: the committed value is 1 after two successful calls.
C20_Witness ==
    \E t, u \in Txns : \E n \in Names :
        /\ t # u /\ status[t] = "idle" /\ status[u] = "idle"
        /\ pc[t] = "ready" /\ pc[u] = "ready"
        /\ GivenOf(t, n) = << 1 >> /\ GivenOf(u, n) = << 1 >>
        /\ CommittedValue(n) = 1 /\ CallCount(Txns, n) = 2

====
